---- MODULE Spec2Model ----
(***************************************************************************)
(* The task queue of transwarp/task.py over the statement-level atomicity  *)
(* of transwarp/db.py.  Every SQL statement issued outside a transaction   *)
(* scope, or alone inside one, is one atomic step on the table `tasks`;    *)
(* what a caller holds between two statements is its local state.          *)
(* Timestamps are whole seconds.  The columns name, callback, task_data,   *)
(* creation_time and group_id are written once and never read by the       *)
(* module, so the rows of the model leave them out.                        *)
(***************************************************************************)
EXTENDS Integers, FiniteSets, Sequences, TLC

\* ---------------------------------------------------------------- bounds
MaxTasks == 2       \* create_task calls that persist a row
MaxTicks == 1       \* clock advances
RaceTasks == 4      \* rows in the queue of the race of fetch_task callers
MaxDepth == 3       \* connection and transaction scopes open at once on one thread
MaxWrites == 2      \* insert statements of the thread that uses the scopes

\* ------------------------------------------------------ program constants
_DEFAULT_QUEUE == "default"
_PENDING == "pending"
_EXECUTING == "executing"
_ERROR == "error"
_DONE == "done"
SecondsPerDay == 86400
DefaultDays == 7
Attempts == 3
EmptyExecutionId == 0        \* execution_id='' of a row never claimed
ZeroTime == 0                \* the 0.0 of the three execution_*_time columns

\* -------------------------------------------------------- callers, inputs
\* Each caller makes one call: the sets bound the calls of a run.
Fetchers == {1, 2}
Reporters == {1, 2}
OtherQueue == "mail"
Queues == {_DEFAULT_QUEUE, OtherQueue}
None == << >>               \* Python's None, where a value is optional
Some(x) == <<x>>
TaskIds == 1..MaxTasks
\* time.time() of a running process lies far more than `days` days after the
\* epoch; the clock starts past the longest retention window in use.
StartTime == (DefaultDays + 1) * SecondsPerDay
Timeouts == {1}
MaxRetries == {0, 1}

VARIABLES
    tasks,        \* the table: a function from the ids of the rows present to rows
    created,      \* ids handed to create_task so far (db.next_str is never repeated)
    issued,       \* execution ids handed to _do_fetch_task so far
    now,          \* time.time()
    ticks,        \* clock advances so far
    fetcher,      \* per fetch_task caller: its position and locals
    reporter,     \* per set_task_result caller: its position and locals
    fetched,      \* history: every Dict a fetch_task call returned, with its caller
    completed,    \* history: when a success report wrote status=done, per task id
    create_ret,   \* what the last create_task call returned
    get_ret,      \* the last get_tasks call: its arguments and what it returned
    db_ctx,       \* _db_ctx of one thread: is_init(), transactions
    connection,   \* _LasyConnection.connection of that thread: open or not
    scopes,       \* the with-scopes the thread is inside, outermost first
    user,         \* table user: the ids of the rows committed
    pending,      \* ids inserted on the connection and not committed
    raising,      \* the exception unwinding the thread's scopes, if any
    outer         \* history of the latest outermost transaction scope

\* The variables of transwarp/db.py's scopes, and those of the task queue.
dbvars == <<db_ctx, connection, scopes, user, pending, raising, outer>>
taskvars == <<tasks, created, issued, now, ticks, fetcher, reporter, fetched, completed,
              create_ret, get_ret>>

vars == <<tasks, created, issued, now, ticks, fetcher, reporter, fetched, completed,
          create_ret, get_ret, dbvars>>

\* What the operations that write the table never write.
readvars == <<get_ret, dbvars>>

\* db.next_str(): a string no earlier call returned; n counts the earlier calls.
next_str(n) == n + 1

\* Callback strings, as the characters startswith() reads.
Http == <<"h", "t", "t", "p", ":", "/", "/">>
Https == <<"h", "t", "t", "p", "s", ":", "/", "/">>
NoCallback == << >>
Callbacks == {NoCallback, Http \o <<"a">>, Https \o <<"a">>, <<"f", "t", "p", ":", "/", "/", "a">>}

\* str.startswith
startswith(s, prefix) == Len(s) >= Len(prefix) /\ SubSeq(s, 1, Len(prefix)) = prefix

NoReturn == [error |-> "", description |-> "", id |-> 0]
ErrorValue(d) == [error |-> "cannot_create_task", description |-> d, id |-> 0]
IdValue(i) == [error |-> "", description |-> "", id |-> i]

NotCalled == <<"not called">>
IdleFetcher == [pc |-> "idle", queue |-> "", n |-> 0, current |-> 0, task |-> None,
                ret |-> NotCalled]
IdleReporter == [pc |-> "idle", task_id |-> 0, execution_id |-> EmptyExecutionId,
                 success |-> FALSE, task_result |-> "", task |-> None, ret |-> NotCalled]

\* No outermost transaction scope entered yet: nothing inserted in it, no scope
\* inside it left, neither commit() nor rollback() of _TransactionCtx called,
\* nothing raised to the caller.
NoScope == [wrote |-> {}, inner |-> {}, calls |-> << >>, raised |-> None, exited |-> FALSE]

\* A caller whose call has returned ret.
Returned(ret) == [IdleFetcher EXCEPT !.pc = "returned", !.ret = ret]

\* An empty table, and no call made yet by the callers F and R.
InitWith(F, R) ==
    /\ tasks = << >>
    /\ created = 0
    /\ issued = 0
    /\ now = StartTime
    /\ ticks = 0
    /\ fetcher = [f \in F |-> IdleFetcher]
    /\ reporter = [r \in R |-> IdleReporter]
    /\ fetched = {}
    /\ completed = << >>
    /\ create_ret = NoReturn
    /\ get_ret = [call |-> << >>, ret |-> NotCalled]
    /\ db_ctx = [init |-> FALSE, transactions |-> 0]
    /\ connection = "none"
    /\ scopes = << >>
    /\ user = {}
    /\ pending = {}
    /\ raising = None
    /\ outer = NoScope

\* time.time() advances by `seconds` between two statements.
Tick(seconds) ==
    /\ ticks < MaxTicks
    /\ ticks' = ticks + 1
    /\ now' = now + seconds
    /\ UNCHANGED <<tasks, created, issued, fetcher, reporter, fetched, completed,
                   create_ret, readvars>>

\* The row create_task builds and inserts.
NewTask(queue, timeout, max_retry, execution_plan_time) ==
    [queue |-> queue,
     timeout |-> timeout,
     status |-> _PENDING,
     max_retry |-> max_retry,
     retried |-> 0,
     execution_id |-> EmptyExecutionId,
     execution_plan_time |-> execution_plan_time,
     execution_start_time |-> ZeroTime,
     execution_end_time |-> ZeroTime,
     execution_expired_time |-> ZeroTime,
     task_result |-> "null",
     version |-> 0]

\* Mutant: the insert rewrites the rows already there.
insert_Overwrite(id, row) == [i \in DOMAIN tasks \cup {id} |-> row]

\* db.insert: one statement, committed at once (no transaction scope is open).
insert(id, row) == [i \in DOMAIN tasks \cup {id} |-> IF i = id THEN row ELSE tasks[i]]

\* Mutant: the row is inserted whatever the callback and the timeout.
create_task_NoValidation(queue, callback, max_retry, execution_plan_time, timeout) ==
    LET q == IF queue = "" THEN _DEFAULT_QUEUE ELSE queue
        mr == IF max_retry < 0 THEN 0 ELSE max_retry
        plan == IF execution_plan_time = None THEN now ELSE execution_plan_time[1]
        id == next_str(created)
    IN  /\ created' = id
        /\ tasks' = insert(id, NewTask(q, timeout, mr, plan))
        /\ create_ret' = IdValue(id)
        /\ UNCHANGED completed

\* create_task(queue, name, task_data, callback, max_retry, execution_plan_time, timeout);
\* queue "" stands for an empty or None queue; execution_plan_time is None or Some(t).
create_task(queue, callback, max_retry, execution_plan_time, timeout) ==
    LET q == IF queue = "" THEN _DEFAULT_QUEUE ELSE queue
        mr == IF max_retry < 0 THEN 0 ELSE max_retry
        plan == IF execution_plan_time = None THEN now ELSE execution_plan_time[1]
        id == next_str(created)
    IN  IF callback # NoCallback /\ ~startswith(callback, Http) /\ ~startswith(callback, Https)
        THEN /\ create_ret' = ErrorValue("invalid callback")
             /\ UNCHANGED <<tasks, created, completed>>
        ELSE IF timeout <= 0
        THEN /\ create_ret' = ErrorValue("invalid timeout")
             /\ UNCHANGED <<tasks, created, completed>>
        ELSE /\ created' = id
             /\ tasks' = insert(id, NewTask(q, timeout, mr, plan))
             /\ create_ret' = IdValue(id)
             /\ UNCHANGED completed

CreateTask(queue, callback, max_retry, execution_plan_time, timeout) ==
    /\ create_task(queue, callback, max_retry, execution_plan_time, timeout)
    /\ UNCHANGED <<issued, now, ticks, fetcher, reporter, fetched, readvars>>

\* ------------------------------------------------------------- fetch_task
\* Mutant: the select takes rows of any status.
IsCandidate_AnyStatus(i, queue, current) ==
    /\ tasks[i].execution_plan_time < current
    /\ tasks[i].queue = queue

\* The where clause of the select in _do_fetch_task.
IsCandidate(i, queue, current) ==
    /\ tasks[i].execution_plan_time < current
    /\ tasks[i].queue = queue
    /\ tasks[i].status = _PENDING

\* Mutant: the select without its order by.
SelectFirst_Any(queue, current) == {i \in DOMAIN tasks : IsCandidate(i, queue, current)}

\* "order by execution_plan_time limit 1": the rows the store may return first.
SelectFirst(queue, current) ==
    LET found == {i \in DOMAIN tasks : IsCandidate(i, queue, current)}
    IN  {i \in found : \A j \in found :
            tasks[i].execution_plan_time <= tasks[j].execution_plan_time}

\* The columns of the selected row that _do_fetch_task reads afterwards.
Selected(i) == [id |-> i, version |-> tasks[i].version, timeout |-> tasks[i].timeout,
                queue |-> tasks[i].queue]

\* _do_fetch_task up to the end of its first transaction scope: current = time.time()
\* and the select.  With no row it returns None, which fetch_task returns.
do_fetch_select(f, queue, n) ==
    LET current == now
        first == SelectFirst(queue, current)
    IN  IF first = {}
        THEN fetcher' = [fetcher EXCEPT ![f] = Returned(<<"None">>)]
        ELSE \E i \in first :
                fetcher' = [fetcher EXCEPT ![f] =
                    [pc |-> "update", queue |-> queue, n |-> n, current |-> current,
                     task |-> Some(Selected(i)), ret |-> NotCalled]]

\* fetch_task(queue): the first pass of its loop, up to the select.
fetch_task(f, queue) ==
    /\ fetcher[f].pc = "idle"
    /\ do_fetch_select(f, IF queue = "" THEN _DEFAULT_QUEUE ELSE queue, 0)
    /\ UNCHANGED <<tasks, created, issued, now, ticks, reporter, fetched, completed,
                   create_ret, readvars>>

\* After a ConflictError and the sleep: the next pass of the loop, up to the select.
fetch_task_retry(f) ==
    /\ fetcher[f].pc = "sleep"
    /\ do_fetch_select(f, fetcher[f].queue, fetcher[f].n)
    /\ UNCHANGED <<tasks, created, issued, now, ticks, reporter, fetched, completed,
                   create_ret, readvars>>

\* Mutant: the update conditioned on the id alone.
ClaimWhere_IdOnly(i, task) == i = task.id

\* The where clause of the update in _do_fetch_task.
ClaimWhere(i, task) == i = task.id /\ tasks[i].version = task.version

\* Mutant: the claim leaves the version as it is.
ClaimSet_KeepsVersion(row, execution_id, current, expires) ==
    [row EXCEPT !.status = _EXECUTING,
                !.execution_id = execution_id,
                !.execution_start_time = current,
                !.execution_expired_time = expires]

\* The set clause of that update.
ClaimSet(row, execution_id, current, expires) ==
    [row EXCEPT !.status = _EXECUTING,
                !.execution_id = execution_id,
                !.execution_start_time = current,
                !.execution_expired_time = expires,
                !.version = @ + 1]

\* Mutant: the Dict carries the version as it was read.
ClaimDict_ReadVersion(task, execution_id) ==
    [id |-> task.id, execution_id |-> execution_id, queue |-> task.queue,
     version |-> task.version]

\* The Dict a successful _do_fetch_task returns.
ClaimDict(task, execution_id) ==
    [id |-> task.id, execution_id |-> execution_id, queue |-> task.queue,
     version |-> task.version + 1]

\* Mutant: the ConflictError of the last pass leaves fetch_task.
OnConflict_Raises(f) ==
    IF fetcher[f].n + 1 < Attempts
    THEN [fetcher EXCEPT ![f] = [@ EXCEPT !.pc = "sleep", !.n = @ + 1, !.task = None]]
    ELSE [fetcher EXCEPT ![f] = Returned(<<"ConflictError">>)]

\* Mutant: the loop goes round until a claim succeeds or no row is left.
OnConflict_NoBound(f) ==
    [fetcher EXCEPT ![f] = [@ EXCEPT !.pc = "sleep", !.n = @ + 1, !.task = None]]

\* Mutant: no retry after a conflict.
OnConflict_GivesUp(f) == [fetcher EXCEPT ![f] = Returned(<<"None">>)]

\* for n in range(Attempts): except ConflictError: sleep and go round, or fall out
\* of the loop and return None.
OnConflict(f) ==
    IF fetcher[f].n + 1 < Attempts
    THEN [fetcher EXCEPT ![f] = [@ EXCEPT !.pc = "sleep", !.n = @ + 1, !.task = None]]
    ELSE [fetcher EXCEPT ![f] = Returned(<<"None">>)]

\* _do_fetch_task from next_str() on: the update in its second transaction scope,
\* which commits when the scope exits, and the return or the ConflictError.
do_fetch_update(f) ==
    LET task == fetcher[f].task[1]
        current == fetcher[f].current
        expires == current + task.timeout
        execution_id == next_str(issued)
        rows == {i \in DOMAIN tasks : ClaimWhere(i, task)}
    IN  /\ fetcher[f].pc = "update"
        /\ issued' = execution_id
        /\ tasks' = [i \in DOMAIN tasks |->
                        IF i \in rows THEN ClaimSet(tasks[i], execution_id, current, expires)
                        ELSE tasks[i]]
        /\ IF Cardinality(rows) = 0
           THEN /\ fetcher' = OnConflict(f)
                /\ UNCHANGED fetched
           ELSE /\ fetcher' = [fetcher EXCEPT ![f] =
                        Returned(<<"Dict", ClaimDict(task, execution_id)>>)]
                /\ fetched' = fetched \cup {[by |-> f, task |-> ClaimDict(task, execution_id)]}
        /\ UNCHANGED <<created, now, ticks, reporter, completed, create_ret, readvars>>

\* Mutant: the caller dies having marked the row it read.
fetch_task_crash_HalfClaimed(f) ==
    /\ fetcher[f].pc \in {"update", "sleep"}
    /\ fetcher' = [fetcher EXCEPT ![f] = [@ EXCEPT !.pc = "crashed"]]
    /\ tasks' = [i \in DOMAIN tasks |->
                    IF fetcher[f].task # None /\ i = fetcher[f].task[1].id
                    THEN [tasks[i] EXCEPT !.status = _EXECUTING]
                    ELSE tasks[i]]
    /\ UNCHANGED <<created, issued, now, ticks, reporter, fetched, completed,
                   create_ret, readvars>>

\* The process of a fetch_task caller dies between two statements: after the
\* select and before the update, or during the sleep.  Nothing is open on the
\* database then: each transaction scope of _do_fetch_task has exited.
fetch_task_crash(f) ==
    /\ fetcher[f].pc \in {"update", "sleep"}
    /\ fetcher' = [fetcher EXCEPT ![f] = [@ EXCEPT !.pc = "crashed"]]
    /\ UNCHANGED <<tasks, created, issued, now, ticks, reporter, fetched, completed,
                   create_ret, readvars>>

\* -------------------------------------------------------- set_task_result
\* The columns set_task_result selects.
Reported(i) == [id |-> i, execution_id |-> tasks[i].execution_id, status |-> tasks[i].status,
                max_retry |-> tasks[i].max_retry, retried |-> tasks[i].retried]

\* The call of reporter r ends, raising exc (or returning, exc = <<"None">>); the
\* record keeps the task id and execution id the call was made with.
Ended(r, task_id, execution_id, exc) ==
    [reporter EXCEPT ![r] = [IdleReporter EXCEPT !.pc = "returned", !.task_id = task_id,
                                                 !.execution_id = execution_id, !.ret = exc]]

\* The call goes on to its update, holding the row it selected.
Accepted(r, task_id, execution_id, success, task_result) ==
    [reporter EXCEPT ![r] =
        [pc |-> "update", task_id |-> task_id, execution_id |-> execution_id,
         success |-> success, task_result |-> task_result,
         task |-> Some(Reported(task_id)), ret |-> NotCalled]]

\* Mutant: no comparison of the execution ids.
set_task_result_NoTokenCheck(r, task_id, execution_id, success, task_result) ==
    /\ reporter[r].pc = "idle"
    /\ reporter' =
          IF task_id \notin DOMAIN tasks
          THEN Ended(r, task_id, execution_id, <<"AttributeError">>)
          ELSE IF tasks[task_id].status # _EXECUTING
          THEN Ended(r, task_id, execution_id, <<"TaskError", "Task status is not executing">>)
          ELSE Accepted(r, task_id, execution_id, success, task_result)
    /\ UNCHANGED <<tasks, created, issued, now, ticks, fetcher, fetched, completed,
                   create_ret, readvars>>

\* Mutant: no check of the status.
set_task_result_NoStatusCheck(r, task_id, execution_id, success, task_result) ==
    /\ reporter[r].pc = "idle"
    /\ reporter' =
          IF task_id \notin DOMAIN tasks
          THEN Ended(r, task_id, execution_id, <<"AttributeError">>)
          ELSE IF tasks[task_id].execution_id # execution_id
          THEN Ended(r, task_id, execution_id, <<"TaskError", "Task execution_id not match.">>)
          ELSE Accepted(r, task_id, execution_id, success, task_result)
    /\ UNCHANGED <<tasks, created, issued, now, ticks, fetcher, fetched, completed,
                   create_ret, readvars>>

\* set_task_result up to its update: select_one (None when no row has the id) and
\* the two checks.  task.execution_id of None raises AttributeError.
set_task_result(r, task_id, execution_id, success, task_result) ==
    /\ reporter[r].pc = "idle"
    /\ reporter' =
          IF task_id \notin DOMAIN tasks
          THEN Ended(r, task_id, execution_id, <<"AttributeError">>)
          ELSE IF tasks[task_id].execution_id # execution_id
          THEN Ended(r, task_id, execution_id, <<"TaskError", "Task execution_id not match.">>)
          ELSE IF tasks[task_id].status # _EXECUTING
          THEN Ended(r, task_id, execution_id, <<"TaskError", "Task status is not executing">>)
          ELSE Accepted(r, task_id, execution_id, success, task_result)
    /\ UNCHANGED <<tasks, created, issued, now, ticks, fetcher, fetched, completed,
                   create_ret, readvars>>

\* Mutant: the comparison made with the incremented count.
FailureStatus_AfterIncrement(task) ==
    IF task.retried + 1 >= task.max_retry THEN _ERROR ELSE _PENDING

\* Mutant: one more retry than max_retry allows.
FailureStatus_Strict(task) == IF task.retried > task.max_retry THEN _ERROR ELSE _PENDING

\* The status a failure report writes.
FailureStatus(task) == IF task.retried >= task.max_retry THEN _ERROR ELSE _PENDING

\* Mutant: a failure report leaves retried as it was.
ResultSet_NoIncrement(row, task, success, task_result) ==
    IF success
    THEN [row EXCEPT !.status = _DONE, !.task_result = task_result]
    ELSE [row EXCEPT !.status = FailureStatus(task)]

\* Mutant: the report takes the claim's token off the row.
ResultSet_ClearsExecutionId(row, task, success, task_result) ==
    IF success
    THEN [row EXCEPT !.status = _DONE, !.task_result = task_result,
                     !.execution_id = EmptyExecutionId]
    ELSE [row EXCEPT !.retried = task.retried + 1, !.status = FailureStatus(task),
                     !.execution_id = EmptyExecutionId]

\* Mutant: the report bumps the version as a claim does.
ResultSet_BumpsVersion(row, task, success, task_result) ==
    IF success
    THEN [row EXCEPT !.status = _DONE, !.task_result = task_result, !.version = @ + 1]
    ELSE [row EXCEPT !.retried = task.retried + 1, !.status = FailureStatus(task),
                     !.version = @ + 1]

\* The kw of set_task_result applied to a row (update_kw's set clause).
ResultSet(row, task, success, task_result) ==
    IF success
    THEN [row EXCEPT !.status = _DONE, !.task_result = task_result]
    ELSE [row EXCEPT !.retried = task.retried + 1, !.status = FailureStatus(task)]

\* db.update_kw('tasks', 'id=?', task_id, **kw): the update, committed at once.
set_task_result_update(r) ==
    LET task == reporter[r].task[1]
        task_id == reporter[r].task_id
    IN  /\ reporter[r].pc = "update"
        /\ tasks' = [i \in DOMAIN tasks |->
                        IF i = task_id
                        THEN ResultSet(tasks[i], task, reporter[r].success,
                                       reporter[r].task_result)
                        ELSE tasks[i]]
        /\ completed' = IF reporter[r].success /\ task_id \in DOMAIN tasks
                        THEN [i \in DOMAIN completed \cup {task_id} |->
                                IF i = task_id THEN now ELSE completed[i]]
                        ELSE completed
        /\ reporter' = Ended(r, task_id, reporter[r].execution_id, <<"None">>)
        /\ UNCHANGED <<created, issued, now, ticks, fetcher, fetched, create_ret, readvars>>

\* ------------------------------------------- cleanup, delete, timeout stub
\* Mutant: the delete conditioned on the end time alone.
CleanupWhere_AnyStatus(i, queue, done_time) == tasks[i].execution_end_time < done_time

\* cleanup(queue, days): one delete statement; its where clause names no queue.
CleanupWhere(i, queue, done_time) ==
    tasks[i].status = _DONE /\ tasks[i].execution_end_time < done_time

cleanup(queue, days) ==
    LET done_time == now - days * SecondsPerDay
        kept == {i \in DOMAIN tasks : ~CleanupWhere(i, queue, done_time)}
    IN  /\ tasks' = [i \in kept |-> tasks[i]]
        /\ UNCHANGED <<created, issued, now, ticks, fetcher, reporter, fetched, completed,
                       create_ret, readvars>>

delete_task(task_id) ==
    /\ tasks' = [i \in DOMAIN tasks \ {task_id} |-> tasks[i]]
    /\ UNCHANGED <<created, issued, now, ticks, fetcher, reporter, fetched, completed,
                   create_ret, readvars>>

\* set_task_timeout: its body is `pass`.
set_task_timeout(task_id) ==
    UNCHANGED vars

\* -------------------------------------------------------------- get_tasks
\* The where clause of the selects of get_tasks; `if status:` takes '' as None.
GetWhere(i, queue, status) ==
    /\ tasks[i].queue = queue
    /\ status # "" => tasks[i].status = status

\* Mutant: the rows in any order.
OrderByPlanTime_Unordered(ids) ==
    {s \in [1..Cardinality(ids) -> ids] :
        \A a, b \in 1..Cardinality(ids) : a < b => s[a] # s[b]}

\* "order by execution_plan_time": the orders the store may return the rows in;
\* rows of equal plan time come in either order.
OrderByPlanTime(ids) ==
    {s \in [1..Cardinality(ids) -> ids] :
        \A a, b \in 1..Cardinality(ids) :
            a < b => /\ s[a] # s[b]
                     /\ tasks[s[a]].execution_plan_time <= tasks[s[b]].execution_plan_time}

\* "limit offset, limit" of a list of row ids, as rows.
LimitRows(s, offset, limit) ==
    LET last == IF offset + limit < Len(s) THEN offset + limit ELSE Len(s)
    IN  [k \in 1..(IF last > offset THEN last - offset ELSE 0) |->
            [id |-> s[offset + k]] @@ tasks[s[offset + k]]]

get_tasks(queue, status, offset, limit) ==
    /\ \E ret \in
            IF offset < 0
            THEN {<<"ValueError", "offset must >=0">>}
            ELSE IF limit < 1 \/ limit > 100
            THEN {<<"ValueError", "limit must be 1 - 100">>}
            ELSE {<<"List", LimitRows(s, offset, limit)>> :
                    s \in OrderByPlanTime({i \in DOMAIN tasks : GetWhere(i, queue, status)})} :
          get_ret' = [call |-> <<queue, status, offset, limit>>, ret |-> ret]
    /\ UNCHANGED <<tasks, created, issued, now, ticks, fetcher, reporter, fetched, completed,
                   create_ret, dbvars>>

\* -------------------------------------------- db.py: scopes and statements
\* One thread uses the scopes and statements of db.py on the table user.
\* _db_ctx.is_init() is "connection is not None": _DbCtx.init() sets a new
\* _LasyConnection, not opened yet, and _DbCtx.cleanup() closes what that object
\* holds without setting _db_ctx.connection back to None.

\* _ConnectionCtx.__enter__
ConnectionEnter ==
    /\ raising = None
    /\ Len(scopes) < MaxDepth
    /\ scopes' = Append(scopes, [kind |-> "connection", should_cleanup |-> ~db_ctx.init])
    /\ db_ctx' = IF db_ctx.init THEN db_ctx ELSE [init |-> TRUE, transactions |-> 0]
    /\ connection' = IF db_ctx.init THEN connection ELSE "none"
    /\ UNCHANGED <<user, pending, raising, outer, taskvars>>

\* _TransactionCtx.__enter__; the history starts anew with an outermost scope.
TransactionEnter ==
    /\ raising = None
    /\ Len(scopes) < MaxDepth
    /\ scopes' = Append(scopes, [kind |-> "transaction", should_cleanup |-> ~db_ctx.init])
    /\ db_ctx' = [init |-> TRUE,
                  transactions |-> (IF db_ctx.init THEN db_ctx.transactions ELSE 0) + 1]
    /\ connection' = IF db_ctx.init THEN connection ELSE "none"
    /\ outer' = IF db_ctx'.transactions = 1 THEN NoScope ELSE outer
    /\ UNCHANGED <<user, pending, raising, taskvars>>

\* Mutant: no statement commits by itself.
AutoCommit_Never(transactions) == FALSE

\* Mutant: every statement commits by itself.
AutoCommit_Always(transactions) == TRUE

\* _update: "if _db_ctx.transactions==0", the statement commits by itself.
AutoCommit(transactions) == transactions = 0

\* insert of the row with id k, through _update under with_connection: the
\* wrapper's scope initialises _db_ctx if need be and then cleans up at its exit;
\* cursor() opens the connection; commit() commits all that is pending on it.
_update(k) ==
    LET should_cleanup == ~db_ctx.init
        transactions == IF db_ctx.init THEN db_ctx.transactions ELSE 0
    IN  /\ raising = None
        /\ k \notin user \cup pending
        /\ db_ctx' = [init |-> TRUE, transactions |-> transactions]
        /\ IF AutoCommit(transactions)
           THEN user' = user \cup pending \cup {k} /\ pending' = {}
           ELSE user' = user /\ pending' = IF should_cleanup THEN {} ELSE pending \cup {k}
        /\ connection' = IF should_cleanup THEN "none" ELSE "open"
        /\ outer' = IF transactions > 0 THEN [outer EXCEPT !.wrote = @ \cup {k}] ELSE outer
        /\ UNCHANGED <<scopes, raising, taskvars>>

\* A select through _select under with_connection: it opens the connection.
_select ==
    /\ raising = None
    /\ db_ctx' = [init |-> TRUE,
                  transactions |-> IF db_ctx.init THEN db_ctx.transactions ELSE 0]
    /\ connection' = IF db_ctx.init THEN "open" ELSE "none"
    /\ UNCHANGED <<scopes, user, pending, raising, outer, taskvars>>

\* The body of the innermost scope raises.
BodyRaises ==
    /\ raising = None
    /\ scopes # << >>
    /\ raising' = Some("StandardError")
    /\ UNCHANGED <<db_ctx, connection, scopes, user, pending, outer, taskvars>>

\* The body of a scope catches what a scope inside it let through.
BodyCatches ==
    /\ raising # None
    /\ scopes # << >>
    /\ raising' = None
    /\ UNCHANGED <<db_ctx, connection, scopes, user, pending, outer, taskvars>>

\* Mutant: every transaction scope commits or rolls back at its exit.
IsOutermost_Always(transactions) == TRUE

\* _TransactionCtx.__exit__: "if _db_ctx.transactions==0", after the decrement.
IsOutermost(transactions) == transactions = 0

\* Mutant: the depth is decremented at the end of the try block, so it is not
\* when commit() or rollback() raises.
ScopeExit_DecrementInTry(commit_ok) ==
    LET scope == scopes[Len(scopes)]
        enclosing == SubSeq(scopes, 1, Len(scopes) - 1)
        transactions == IF scope.kind = "transaction" THEN db_ctx.transactions - 1
                        ELSE db_ctx.transactions
        ends == scope.kind = "transaction" /\ IsOutermost(transactions)
        call == IF raising = None THEN "commit" ELSE "rollback"
        error == IF ~ends THEN raising
                 ELSE IF connection = "none" THEN Some("AttributeError")
                 ELSE IF raising = None /\ ~commit_ok THEN Some("CommitError")
                 ELSE raising
    IN  /\ scopes # << >>
        /\ db_ctx' = IF ends /\ error # raising THEN db_ctx
                     ELSE [db_ctx EXCEPT !.transactions = transactions]
        /\ user' = IF ends /\ connection = "open" /\ raising = None /\ commit_ok
                   THEN user \cup pending ELSE user
        /\ pending' = IF (ends /\ connection = "open") \/ scope.should_cleanup
                      THEN {} ELSE pending
        /\ connection' = IF scope.should_cleanup THEN "none" ELSE connection
        /\ scopes' = enclosing
        /\ raising' = IF enclosing = << >> THEN None ELSE error
        /\ outer' = IF ends
                    THEN [outer EXCEPT !.calls = Append(@, call), !.raised = error,
                                       !.exited = TRUE]
                    ELSE IF scope.kind = "transaction"
                    THEN [outer EXCEPT !.inner = @ \cup {IF raising = None THEN "normal"
                                                         ELSE "exception"}]
                    ELSE outer
        /\ UNCHANGED taskvars

\* __exit__ of the innermost scope, entered with the exception that is unwinding
\* or with none.  A transaction scope decrements the depth and, outermost, calls
\* commit() or rollback(); on a _LasyConnection never opened either raises
\* AttributeError; a commit that fails (commit_ok false) rolls back and raises.
\* Then the scope that initialised _db_ctx closes the connection, and what is
\* pending on it is lost.  The exception goes on to the enclosing scope, or to
\* the caller.
ScopeExit(commit_ok) ==
    LET scope == scopes[Len(scopes)]
        enclosing == SubSeq(scopes, 1, Len(scopes) - 1)
        transactions == IF scope.kind = "transaction" THEN db_ctx.transactions - 1
                        ELSE db_ctx.transactions
        ends == scope.kind = "transaction" /\ IsOutermost(transactions)
        call == IF raising = None THEN "commit" ELSE "rollback"
        error == IF ~ends THEN raising
                 ELSE IF connection = "none" THEN Some("AttributeError")
                 ELSE IF raising = None /\ ~commit_ok THEN Some("CommitError")
                 ELSE raising
    IN  /\ scopes # << >>
        /\ db_ctx' = [db_ctx EXCEPT !.transactions = transactions]
        /\ user' = IF ends /\ connection = "open" /\ raising = None /\ commit_ok
                   THEN user \cup pending ELSE user
        /\ pending' = IF (ends /\ connection = "open") \/ scope.should_cleanup
                      THEN {} ELSE pending
        /\ connection' = IF scope.should_cleanup THEN "none" ELSE connection
        /\ scopes' = enclosing
        /\ raising' = IF enclosing = << >> THEN None ELSE error
        /\ outer' = IF ends
                    THEN [outer EXCEPT !.calls = Append(@, call), !.raised = error,
                                       !.exited = TRUE]
                    ELSE IF scope.kind = "transaction"
                    THEN [outer EXCEPT !.inner = @ \cup {IF raising = None THEN "normal"
                                                         ELSE "exception"}]
                    ELSE outer
        /\ UNCHANGED taskvars

\* ------------------------------------------------------------ the program
\* Callers are interchangeable: caller k makes its call after caller k-1 made its.
InTurn(callers, k) == \A j \in DOMAIN callers : j < k => callers[j].pc # "idle"

Results == {"ok"}

\* Concurrent callers over one queue of immediately eligible tasks.  A report
\* carries the id and execution id of a Dict some fetch_task call returned, at any
\* later time and any number of times.
Next ==
    \/ Tick(1)
    \/ \E max_retry \in {0, 1} :
            /\ created < MaxTasks
            /\ CreateTask("", NoCallback, max_retry, Some(StartTime - 1), 1)
    \/ \E f \in Fetchers : InTurn(fetcher, f) /\ fetch_task(f, "")
    \/ \E f \in Fetchers : fetch_task_retry(f)
    \/ \E f \in Fetchers : do_fetch_update(f)
    \/ \E r \in Reporters, d \in fetched, success \in BOOLEAN, task_result \in Results :
            /\ InTurn(reporter, r)
            /\ set_task_result(r, d.task.id, d.task.execution_id, success, task_result)
    \/ \E r \in Reporters : set_task_result_update(r)
    \/ cleanup("", DefaultDays)
    \/ \E task_id \in TaskIds : set_task_timeout(task_id)

Init == InitWith(Fetchers, Reporters)

Spec == Init /\ [][Next]_vars

\* One call at a time: no call starts while another is between its statements.
Quiet ==
    /\ \A f \in DOMAIN fetcher : fetcher[f].pc \in {"idle", "returned"}
    /\ \A r \in DOMAIN reporter : reporter[r].pc \in {"idle", "returned"}

SeqFetchers == {1, 2, 3}
SeqReporters == {1, 2, 3}

\* What a report is called with: the id and execution id of a returned Dict.
ReportArgs == {<<d.task.id, d.task.execution_id>> : d \in fetched}

SeqNext ==
    \/ Tick(1)
    \/ \E max_retry \in {-1, 0, 1} :
            /\ Quiet
            /\ created < MaxTasks
            /\ CreateTask("", NoCallback, max_retry, Some(StartTime - 1), 1)
    \/ \E f \in SeqFetchers : Quiet /\ InTurn(fetcher, f) /\ fetch_task(f, "")
    \/ \E f \in SeqFetchers : do_fetch_update(f)
    \/ \E r \in SeqReporters, a \in ReportArgs, success \in BOOLEAN, task_result \in Results :
            /\ Quiet
            /\ InTurn(reporter, r)
            /\ set_task_result(r, a[1], a[2], success, task_result)
    \/ \E r \in SeqReporters : set_task_result_update(r)

InitSeq == InitWith(SeqFetchers, SeqReporters)

SpecSeq == InitSeq /\ [][SeqNext]_vars

\* RaceCallers concurrent fetch_task calls against a queue filled beforehand.
RaceCallers == {1, 2, 3, 4}

RaceNext ==
    \/ /\ \A f \in RaceCallers : fetcher[f].pc = "idle"
       /\ created < RaceTasks
       /\ CreateTask("", NoCallback, 0, Some(StartTime - 1), 1)
    \/ \E f \in RaceCallers : InTurn(fetcher, f) /\ fetch_task(f, "")
    \/ \E f \in RaceCallers : fetch_task_retry(f)
    \/ \E f \in RaceCallers : do_fetch_update(f)

InitRace == InitWith(RaceCallers, {})

SpecRace == InitRace /\ [][RaceNext]_vars

\* Workers that claim and never report, the clock, and the timeout handler run
\* again and again.  A clock advance outlasts the timeout of every task.
LiveNext ==
    \/ Tick(2)
    \/ /\ created < MaxTasks
       /\ CreateTask("", NoCallback, 1, Some(StartTime - 1), 1)
    \/ \E f \in Fetchers : InTurn(fetcher, f) /\ fetch_task(f, "")
    \/ \E f \in Fetchers : fetch_task_retry(f)
    \/ \E f \in Fetchers : do_fetch_update(f)
    \/ \E task_id \in TaskIds : set_task_timeout(task_id)

SpecLive == Init /\ [][LiveNext]_vars /\ WF_vars(LiveNext)

\* Every operation that writes the table, with every kind of argument, one call
\* at a time and within one reading of the clock: two queues, callbacks good and
\* bad, timeouts good and bad, plan times given and defaulted.
OpsFetchers == {1, 2}
OpsReporters == {1}

OpsNext ==
    \/ \E queue \in {"", OtherQueue}, callback \in Callbacks, max_retry \in {-1, 1},
          execution_plan_time \in {None, Some(StartTime - 1)}, timeout \in {0, 1} :
            /\ Quiet
            /\ created < MaxTasks
            /\ CreateTask(queue, callback, max_retry, execution_plan_time, timeout)
    \/ \E f \in OpsFetchers, queue \in {"", OtherQueue} :
            Quiet /\ InTurn(fetcher, f) /\ fetch_task(f, queue)
    \/ \E f \in OpsFetchers : do_fetch_update(f)
    \/ \E r \in OpsReporters, a \in ReportArgs, success \in BOOLEAN, task_result \in Results :
            /\ Quiet
            /\ InTurn(reporter, r)
            /\ set_task_result(r, a[1], a[2], success, task_result)
    \/ \E r \in OpsReporters : set_task_result_update(r)
    \/ \E queue \in {"", OtherQueue}, days \in {0, DefaultDays} : Quiet /\ cleanup(queue, days)
    \/ \E task_id \in TaskIds : Quiet /\ delete_task(task_id)

InitOps == InitWith(OpsFetchers, OpsReporters)

SpecOps == InitOps /\ [][OpsNext]_vars

\* Readers of a table that creators and a claimant fill, one call at a time.
\* The offset and limit pairs of the get_tasks calls.
Pages == {<<0, 100>>, <<1, 1>>, <<-1, 1>>, <<0, 0>>, <<0, 101>>}

ReadNext ==
    \/ Tick(1)
    \/ \E queue \in {"", OtherQueue}, execution_plan_time \in {None, Some(StartTime - 1)} :
            /\ Quiet
            /\ created < MaxTasks
            /\ CreateTask(queue, NoCallback, 0, execution_plan_time, 1)
    \/ \E f \in OpsFetchers : Quiet /\ InTurn(fetcher, f) /\ fetch_task(f, "")
    \/ \E f \in OpsFetchers : do_fetch_update(f)
    \/ \E queue \in Queues, status \in {"", _PENDING}, page \in Pages :
            Quiet /\ get_tasks(queue, status, page[1], page[2])

SpecRead == InitOps /\ [][ReadNext]_vars

\* One claimant and nothing else: the table is filled while the clock runs, then
\* fetch_task is called on the default queue again and again, each call ending
\* before the next.
FillCallers == {1, 2, 3}

FillNext ==
    \/ /\ \A f \in FillCallers : fetcher[f].pc = "idle"
       /\ Tick(1)
    \/ \E queue \in {"", OtherQueue}, max_retry \in {0, 1},
          execution_plan_time \in {None, Some(StartTime - 1)} :
            /\ \A f \in FillCallers : fetcher[f].pc = "idle"
            /\ created < MaxTasks
            /\ CreateTask(queue, NoCallback, max_retry, execution_plan_time, 1)
    \/ \E f \in FillCallers : Quiet /\ InTurn(fetcher, f) /\ fetch_task(f, "")
    \/ \E f \in FillCallers : do_fetch_update(f)

InitFill == InitWith(FillCallers, {})

SpecFill == InitFill /\ [][FillNext]_vars

\* One thread entering and leaving scopes, running statements, raising and
\* catching, in any order.
DbNext ==
    \/ ConnectionEnter
    \/ TransactionEnter
    \/ \E k \in 1..MaxWrites : _update(k)
    \/ _select
    \/ BodyRaises
    \/ BodyCatches
    \/ \E commit_ok \in BOOLEAN : ScopeExit(commit_ok)

InitDb == InitWith({}, {})

SpecDb == InitDb /\ [][DbNext]_vars

\* RaceCallers claimants, any of which may die half-way, against as many rows as
\* a call makes passes; every caller alive goes on with its call.
ClaimNext ==
    \/ /\ \A f \in RaceCallers : fetcher[f].pc = "idle"
       /\ created < Attempts
       /\ CreateTask("", NoCallback, 0, Some(StartTime - 1), 1)
    \/ \E f \in RaceCallers : InTurn(fetcher, f) /\ fetch_task(f, "")
    \/ \E f \in RaceCallers : fetch_task_retry(f)
    \/ \E f \in RaceCallers : do_fetch_update(f)
    \/ \E f \in RaceCallers : fetch_task_crash(f)

SpecClaim ==
    /\ InitRace
    /\ [][ClaimNext]_vars
    /\ \A f \in RaceCallers : WF_vars(fetch_task_retry(f) \/ do_fetch_update(f))

\* ------------------------------------------------------------- the claims
\* The Dicts fetch_task calls returned for task i.
ClaimsOf(i) == {d \in fetched : d.task.id = i}

\* C1: no two fetch_task calls return the same task id with the same version, and
\* while a row is executing exactly one returned Dict carries the row's
\* execution_id, whatever the interleaving of the selects and updates.
C1_OneClaimPerVersion ==
    /\ \A d, e \in fetched :
          (d.task.id = e.task.id /\ d.task.version = e.task.version) => d = e
    /\ \A i \in DOMAIN tasks :
          tasks[i].status = _EXECUTING =>
            Cardinality({d \in fetched : d.task.execution_id = tasks[i].execution_id}) = 1

\* Two callers selected the same row; one claimed it and the other met the conflict.
C1_Witness ==
    \E f, g \in DOMAIN fetcher :
        /\ fetcher[f].pc = "returned" /\ fetcher[f].ret[1] = "Dict"
        /\ fetcher[g].pc = "sleep"
        /\ fetcher[f].ret[2].id \in DOMAIN tasks
        /\ tasks[fetcher[f].ret[2].id].status = _EXECUTING

\* C3: the version of a row is the number of successful claims of it: it starts at
\* 0, each claim adds exactly 1, and nothing else changes it.
C3_VersionCountsClaims ==
    \A i \in DOMAIN tasks : tasks[i].version = Cardinality(ClaimsOf(i))

\* A row claimed twice, with a report in between.
C3_Witness ==
    \E i \in DOMAIN tasks : tasks[i].version = 2 /\ tasks[i].retried >= 1

\* C4: as claimed, the status of a row moves only along pending->executing,
\* executing->done, executing->pending and executing->error, and done and error
\* are never left.
LifecycleEdges ==
    {<<_PENDING, _EXECUTING>>, <<_EXECUTING, _DONE>>, <<_EXECUTING, _PENDING>>,
     <<_EXECUTING, _ERROR>>}

C4_StatusFollowsEdges ==
    [][\A i \in DOMAIN tasks \cap DOMAIN tasks' :
          \/ tasks'[i].status = tasks[i].status
          \/ <<tasks[i].status, tasks'[i].status>> \in LifecycleEdges]_vars

\* C5, as amended: a pending row has retried <= max_retry, and a row in error has
\* retried > max_retry, the report that ends the retries having counted itself.
C5_RetriedAgainstMaxRetry ==
    \A i \in DOMAIN tasks :
        /\ tasks[i].status = _PENDING => tasks[i].retried <= tasks[i].max_retry
        /\ tasks[i].status = _ERROR => tasks[i].retried > tasks[i].max_retry

\* A row moved to error by its last failure report.
C5_Witness ==
    \E i \in DOMAIN tasks :
        tasks[i].status = _ERROR /\ tasks[i].retried = tasks[i].max_retry + 1

\* C5 as claimed: retried <= max_retry in every state.
C5_RetriedAtMostMaxRetry ==
    \A i \in DOMAIN tasks : tasks[i].retried <= tasks[i].max_retry

\* The calls of set_task_result a step may be.
ReportCalls ==
    (DOMAIN reporter) \X TaskIds \X (0..issued) \X BOOLEAN \X Results

\* C6: a set_task_result call whose execution_id differs from the row's raises
\* TaskError and ends there, the table as it was.
C6_StaleTokenRejected ==
    [][\A c \in ReportCalls :
          (/\ set_task_result(c[1], c[2], c[3], c[4], c[5])
           /\ c[2] \in DOMAIN tasks
           /\ tasks[c[2]].execution_id # c[3])
          => (/\ tasks' = tasks
              /\ reporter'[c[1]].pc = "returned"
              /\ reporter'[c[1]].ret = <<"TaskError", "Task execution_id not match.">>)]_vars

\* A report with the execution id of the first claim, rejected after the second claim.
C6_Witness ==
    \E r \in DOMAIN reporter, d \in fetched :
        /\ reporter[r].pc = "returned"
        /\ reporter[r].ret = <<"TaskError", "Task execution_id not match.">>
        /\ reporter[r].task_id = d.task.id
        /\ reporter[r].execution_id = d.task.execution_id
        /\ d.task.version = 1
        /\ d.task.id \in DOMAIN tasks
        /\ tasks[d.task.id].version = 2

\* C7: a set_task_result call on a row that is not executing raises TaskError and
\* ends there, the table as it was, also when the execution_id is the row's.
C7_NotExecutingRejected ==
    [][\A c \in ReportCalls :
          (/\ set_task_result(c[1], c[2], c[3], c[4], c[5])
           /\ c[2] \in DOMAIN tasks
           /\ tasks[c[2]].status # _EXECUTING)
          => (/\ tasks' = tasks
              /\ reporter'[c[1]].pc = "returned"
              /\ reporter'[c[1]].ret[1] = "TaskError")]_vars

\* A second report with the execution id of a report that was accepted.
C7_Witness ==
    \E r, q \in DOMAIN reporter :
        /\ reporter[r].pc = "returned" /\ reporter[r].ret = <<"None">>
        /\ reporter[q].pc = "returned"
        /\ reporter[q].ret = <<"TaskError", "Task status is not executing">>
        /\ reporter[q].task_id = reporter[r].task_id
        /\ reporter[q].execution_id = reporter[r].execution_id

\* Every call of the race has returned.
AllReturned == \A f \in DOMAIN fetcher : fetcher[f].pc = "returned"
Winners == {f \in DOMAIN fetcher : fetcher[f].pc = "returned" /\ fetcher[f].ret[1] = "Dict"}
Min(a, b) == IF a <= b THEN a ELSE b

\* What C2 says of the Dicts returned: distinct task ids, distinct execution ids,
\* and None for every other caller.
DistinctClaims ==
    /\ Cardinality({fetcher[f].ret[2].id : f \in Winners}) = Cardinality(Winners)
    /\ Cardinality({fetcher[f].ret[2].execution_id : f \in Winners}) = Cardinality(Winners)
    /\ \A f \in DOMAIN fetcher \ Winners : fetcher[f].ret = <<"None">>

\* C2 as claimed: of N concurrent calls against M <= N eligible rows (created
\* counts them: the queue is filled before the first call), exactly M return a
\* task, with distinct ids and execution ids, and the others return None.
C2_ExactlyMSucceed ==
    (AllReturned /\ created <= Cardinality(DOMAIN fetcher)) =>
        (DistinctClaims /\ Cardinality(Winners) = created)

\* C2, as amended: at most M calls and at least min(M, Attempts) calls return a
\* task, so exactly M when M <= Attempts; the Dicts are distinct as claimed.
C2_BetweenThreeAndM ==
    (AllReturned /\ created <= Cardinality(DOMAIN fetcher)) =>
        /\ DistinctClaims
        /\ Cardinality(Winners) <= created
        /\ Cardinality(Winners) >= Min(created, Attempts)

\* Four calls against four rows: three claimed, one caller lost every pass.
C2_Witness ==
    /\ AllReturned
    /\ created = Cardinality(DOMAIN fetcher)
    /\ Cardinality(Winners) = created - 1
    /\ \E i \in DOMAIN tasks : tasks[i].status = _PENDING

\* C8: with one report per claim, a failure report on a row that has failed fewer
\* than max_retry times returns it to pending with retried one more, the
\* (max_retry+1)-th sets error; every claim takes a pending row to executing with
\* version one more and an execution id never returned before; so a row is
\* claimed at most max_retry + 1 times.
C8_RetryCycle ==
    /\ [][\A r \in DOMAIN reporter :
            (/\ set_task_result_update(r)
             /\ ~reporter[r].success
             /\ reporter[r].task_id \in DOMAIN tasks)
            => LET old == tasks[reporter[r].task_id]
                   new == tasks'[reporter[r].task_id]
               IN  /\ old.status = _EXECUTING
                   /\ new.retried = old.retried + 1
                   /\ new.status = IF old.retried < old.max_retry THEN _PENDING ELSE _ERROR]_vars
    /\ [][\A d \in fetched' \ fetched :
            /\ tasks[d.task.id].status = _PENDING
            /\ tasks'[d.task.id].status = _EXECUTING
            /\ tasks'[d.task.id].version = tasks[d.task.id].version + 1
            /\ d.task.version = tasks'[d.task.id].version
            /\ tasks'[d.task.id].execution_id = d.task.execution_id
            /\ \A e \in fetched : e.task.execution_id # d.task.execution_id]_vars
    /\ [](\A i \in DOMAIN tasks : Cardinality(ClaimsOf(i)) <= tasks[i].max_retry + 1)

\* max_retry = 1: claimed twice, failed twice, in error with retried = 2; a third
\* fetch_task found nothing, and a report with the first execution id was rejected.
C8_Witness ==
    \E i \in DOMAIN tasks, r \in DOMAIN reporter, f \in DOMAIN fetcher :
        /\ tasks[i].max_retry = 1 /\ tasks[i].status = _ERROR
        /\ tasks[i].retried = 2 /\ tasks[i].version = 2
        /\ Cardinality(ClaimsOf(i)) = 2
        /\ \A j \in DOMAIN tasks : j = i
        /\ fetcher[f].pc = "returned" /\ fetcher[f].ret = <<"None">>
        /\ reporter[r].pc = "returned" /\ reporter[r].ret[1] = "TaskError"
        /\ reporter[r].task_id = i
        /\ \E d \in ClaimsOf(i) :
              d.task.version = 1 /\ d.task.execution_id = reporter[r].execution_id
        /\ \A q \in DOMAIN reporter : q # r => reporter[q].ret = <<"None">>

\* C9 as claimed: a row that is executing past its execution_expired_time is
\* in the end pending again, its execution_id cleared.
\* set_task_timeout is the only operation meant to act on such a row and its
\* body is `pass`: calling it forever leaves the table as it is, so a behaviour
\* that ends repeating the same state is one in which it keeps being called.
Expired(i) ==
    /\ i \in DOMAIN tasks
    /\ tasks[i].status = _EXECUTING
    /\ tasks[i].execution_expired_time < now

C9_ExpiredIsReclaimed ==
    \A i \in TaskIds :
        Expired(i) ~> (/\ i \in DOMAIN tasks
                       /\ tasks[i].status = _PENDING
                       /\ tasks[i].execution_id = EmptyExecutionId)

\* C10 as claimed: cleanup(queue, days) leaves every done row whose success report
\* was written no more than `days` days before the sweep.
C10_RecentDoneSurvives ==
    [][\A queue \in {"", OtherQueue}, days \in {0, DefaultDays} :
          cleanup(queue, days) =>
            \A i \in DOMAIN tasks :
                (/\ tasks[i].status = _DONE
                 /\ i \in DOMAIN completed
                 /\ now - completed[i] <= days * SecondsPerDay)
                => i \in DOMAIN tasks']_vars

\* C11: cleanup, with any queue and any days, leaves every row that is pending,
\* executing or error in the table and as it was, whatever the row's timestamps
\* and whatever fetch_task and set_task_result calls are under way.
C11_CleanupSparesLiveRows ==
    [][\A queue \in {"", OtherQueue}, days \in {0, DefaultDays} :
          cleanup(queue, days) =>
            \A i \in DOMAIN tasks :
                tasks[i].status \in {_PENDING, _EXECUTING, _ERROR}
                => (i \in DOMAIN tasks' /\ tasks'[i] = tasks[i])]_vars

\* cleanup has deleted a done row while the other row stayed executing (its end
\* time as old as the deleted row's) and a set_task_result call on it was between
\* its select and its update.
C11_Witness ==
    /\ \E i \in 1..created : i \notin DOMAIN tasks
    /\ \E j \in DOMAIN tasks :
          /\ tasks[j].status = _EXECUTING /\ tasks[j].execution_end_time = ZeroTime
          /\ \E r \in DOMAIN reporter : reporter[r].pc = "update" /\ reporter[r].task_id = j

\* C12 as claimed: cleanup called with a queue leaves the rows of every other
\* queue in the table.
C12_CleanupKeepsOtherQueues ==
    [][\A days \in {0, DefaultDays} :
          cleanup(OtherQueue, days) =>
            \A i \in DOMAIN tasks : tasks[i].queue # OtherQueue => i \in DOMAIN tasks']_vars

\* The create_task calls a step may be.  A call changes create_ret, unless it is
\* refused as the call before it was and changes nothing at all.
CreateCalls ==
    {"", OtherQueue} \X Callbacks \X {-1, 1} \X {None, Some(StartTime - 1)} \X {0, 1}

\* A callback that is not empty and starts with neither http:// nor https://.
BadCallback(callback) ==
    /\ Len(callback) > 0
    /\ ~(Len(callback) >= 7 /\ SubSeq(callback, 1, 7) = Http)
    /\ ~(Len(callback) >= 8 /\ SubSeq(callback, 1, 8) = Https)

\* C13: create_task with a bad callback or with timeout <= 0 returns the error
\* value (no id, no exception) and leaves the table as it was.
C13_InvalidCreateRejected ==
    [][\A c \in CreateCalls :
          (/\ create_ret' # create_ret
           /\ CreateTask(c[1], c[2], c[3], c[4], c[5])
           /\ (BadCallback(c[2]) \/ c[5] <= 0))
          => (/\ tasks' = tasks
              /\ created' = created
              /\ create_ret'.error = "cannot_create_task"
              /\ create_ret'.description \in {"invalid callback", "invalid timeout"}
              /\ create_ret'.id = 0)]_vars

\* A call refused for its timeout after a call that persisted a row: the row is
\* there, alone.
C13_Witness ==
    /\ create_ret = ErrorValue("invalid timeout")
    /\ created = 1
    /\ DOMAIN tasks = {1}

\* C14: a create_task call with a good callback and timeout > 0 adds exactly one
\* row, pending, never claimed nor retried, max_retry floored at 0, on the default
\* queue when none is given, planned for now when no time is given; it returns the
\* id of that row and leaves every other row as it was.
C14_CreateAddsOnePendingRow ==
    [][\A c \in CreateCalls :
          (/\ create_ret' # create_ret
           /\ CreateTask(c[1], c[2], c[3], c[4], c[5])
           /\ ~BadCallback(c[2])
           /\ c[5] > 0)
          => LET id == create_ret'.id
             IN  /\ create_ret'.error = ""
                 /\ id \notin DOMAIN tasks
                 /\ DOMAIN tasks' = DOMAIN tasks \cup {id}
                 /\ \A i \in DOMAIN tasks : tasks'[i] = tasks[i]
                 /\ tasks'[id].status = _PENDING
                 /\ tasks'[id].version = 0
                 /\ tasks'[id].retried = 0
                 /\ tasks'[id].execution_id = EmptyExecutionId
                 /\ tasks'[id].max_retry = (IF c[3] > 0 THEN c[3] ELSE 0)
                 /\ tasks'[id].queue = (IF c[1] = "" THEN _DEFAULT_QUEUE ELSE c[1])
                 /\ tasks'[id].execution_plan_time = (IF c[4] = None THEN now ELSE c[4][1])
                 /\ tasks'[id].timeout = c[5]]_vars

\* A second row, created with max_retry -1, no plan time and a queue, beside a
\* first row that a claim had changed before.
C14_Witness ==
    /\ create_ret = IdValue(2)
    /\ DOMAIN tasks = {1, 2}
    /\ tasks[1].status = _EXECUTING
    /\ tasks[2].status = _PENDING
    /\ tasks[2].queue = OtherQueue
    /\ tasks[2].max_retry = 0
    /\ tasks[2].execution_plan_time = now

\* C15: whatever the interleaving, a fetch_task call that has ended returned a
\* claimed task or None; the ConflictError of a lost update never leaves it.
C15_ConflictNeverSurfaces ==
    \A f \in DOMAIN fetcher :
        fetcher[f].pc = "returned" =>
            \/ fetcher[f].ret = <<"None">>
            \/ /\ fetcher[f].ret[1] = "Dict"
               /\ [by |-> f, task |-> fetcher[f].ret[2]] \in fetched

\* The caller that called first lost its update on every pass, each time to
\* another caller, and returned None with a row still pending.
C15_Witness ==
    /\ fetcher[1].pc = "returned" /\ fetcher[1].ret = <<"None">>
    /\ \E i \in DOMAIN tasks : tasks[i].status = _PENDING /\ tasks[i].execution_plan_time < now
    /\ Cardinality({d.by : d \in fetched}) = Attempts

\* The rows of the default queue, the queue the calls of SpecFill fetch from.
OnDefaultQueue == {i \in DOMAIN tasks : tasks[i].queue = _DEFAULT_QUEUE}

\* C16: one claimant, nothing concurrent, K rows on the queue, all planned before
\* the calls: call k returns a task of the queue for k <= K, the tasks returned are
\* distinct, and every later call returns None; with one row created, the id
\* returned is the id create_task returned.
C16_FetchDrainsQueue ==
    (\A i \in OnDefaultQueue : tasks[i].execution_plan_time < now) =>
        \A f \in DOMAIN fetcher :
            fetcher[f].pc = "returned" =>
                IF f <= Cardinality(OnDefaultQueue)
                THEN /\ fetcher[f].ret[1] = "Dict"
                     /\ fetcher[f].ret[2].id \in OnDefaultQueue
                     /\ \A g \in DOMAIN fetcher :
                            (g < f /\ fetcher[g].pc = "returned")
                            => fetcher[g].ret[2].id # fetcher[f].ret[2].id
                     /\ created = 1 => fetcher[f].ret[2].id = create_ret.id
                ELSE fetcher[f].ret = <<"None">>

\* Two rows on the queue, one planned by default a clock reading earlier, beside
\* none of another queue: two calls returned them and the third returned None.
C16_Witness ==
    /\ OnDefaultQueue = {1, 2}
    /\ \E i \in OnDefaultQueue : tasks[i].execution_plan_time = StartTime
    /\ now > StartTime
    /\ fetcher[1].ret[1] = "Dict" /\ fetcher[2].ret[1] = "Dict"
    /\ fetcher[3].pc = "returned" /\ fetcher[3].ret = <<"None">>

\* The step is the exit of the outermost transaction scope.
OutermostExit(commit_ok) ==
    /\ ScopeExit(commit_ok)
    /\ scopes[Len(scopes)].kind = "transaction"
    /\ db_ctx.transactions = 1

\* C17: the inserts made inside an outermost transaction scope are all committed
\* or all undone when it exits.  Left with an exception, none of them is in the
\* table afterwards and the exception goes on to the caller; left normally, with a
\* commit that works, all of them are in the table; and a commit that fails
\* leaves none and raises.  Before the exit none is committed, after it none is
\* pending.
C17_AllOrNothing ==
    /\ [][\A commit_ok \in BOOLEAN :
            OutermostExit(commit_ok) =>
                /\ pending' = {}
                /\ raising # None =>
                      /\ user' = user
                      /\ outer.wrote \cap user' = {}
                      /\ outer'.raised # None
                      /\ outer.wrote # {} => outer'.raised = raising
                /\ (raising = None /\ commit_ok /\ outer.wrote # {}) =>
                      /\ user' = user \cup outer.wrote
                      /\ outer'.raised = None
                /\ (raising = None /\ ~commit_ok) =>
                      /\ user' = user
                      /\ outer'.raised # None]_vars
    /\ [](IF db_ctx.transactions > 0
          THEN pending = outer.wrote /\ outer.wrote \cap user = {}
          ELSE pending = {})

\* Two inserts in nested scopes were undone by an exception raised in the inner
\* one, which reached the caller of the outer one.
C17_Witness ==
    /\ scopes = << >>
    /\ outer.exited
    /\ outer.wrote = {1, 2}
    /\ outer.inner = {"exception"}
    /\ outer.raised = Some("StandardError")
    /\ outer.calls = <<"rollback">>
    /\ user = {}

\* C18: commit() and rollback() are called at the exit of the outermost
\* transaction scope only, one of them and once; the exit of a scope inside
\* another, normal or with an exception, commits nothing, undoes nothing and
\* calls neither.
C18_OnlyOutermostEnds ==
    /\ [][\A commit_ok \in BOOLEAN :
            (/\ ScopeExit(commit_ok)
             /\ scopes[Len(scopes)].kind = "transaction")
            => IF db_ctx.transactions > 1
               THEN /\ user' = user
                    /\ pending' = pending
                    /\ outer'.calls = outer.calls
                    /\ raising' = raising
               ELSE /\ outer.calls = << >>
                    /\ outer'.calls = IF raising = None THEN <<"commit">> ELSE <<"rollback">>]_vars
    /\ [][outer'.calls # outer.calls =>
            \/ db_ctx.transactions = 1 /\ db_ctx'.transactions = 0
            \/ db_ctx.transactions = 0 /\ db_ctx'.transactions = 1 /\ outer'.calls = << >>]_vars
    /\ [](Len(outer.calls) <= 1)

\* Three transaction scopes deep, the innermost left with an exception and the
\* middle one normally after the exception was caught: both inserts are still
\* pending and neither commit() nor rollback() has been called.
C18_Witness ==
    /\ Len(scopes) = 1
    /\ db_ctx.transactions = 1
    /\ pending = {1, 2}
    /\ raising = None
    /\ outer.inner = {"normal", "exception"}
    /\ outer.calls = << >>
    /\ user = {}

\* What C19 says of every list returned: rows of the queue asked for, of the
\* status asked for if any, in ascending order of execution_plan_time.
FilteredAndOrdered(rows, queue, status) ==
    /\ \A k \in DOMAIN rows :
          /\ rows[k].queue = queue
          /\ status # "" => rows[k].status = status
    /\ \A a, b \in DOMAIN rows :
          a < b => rows[a].execution_plan_time <= rows[b].execution_plan_time

\* A row whose plan time create_task took from the clock: the plan times given
\* in the calls of SpecRead lie before StartTime.
DefaultPlanned(row) == row.execution_plan_time >= StartTime

\* C19 as claimed: filtered and ordered, and of two rows with default plan times
\* the one created first (ids count the creations) comes first.
C19_EarlierCreatedFirst ==
    get_ret.ret[1] = "List" =>
        LET rows == get_ret.ret[2]
        IN  /\ FilteredAndOrdered(rows, get_ret.call[1], get_ret.call[2])
            /\ \A a, b \in DOMAIN rows :
                  (/\ rows[a].id < rows[b].id
                   /\ DefaultPlanned(rows[a]) /\ DefaultPlanned(rows[b]))
                  => a < b

\* C19, as amended: filtered and ordered, and of two rows with default plan times
\* the one created first comes first when the clock had advanced before the
\* second was created.
C19_EarlierPlannedFirst ==
    get_ret.ret[1] = "List" =>
        LET rows == get_ret.ret[2]
        IN  /\ FilteredAndOrdered(rows, get_ret.call[1], get_ret.call[2])
            /\ \A a, b \in DOMAIN rows :
                  (/\ rows[a].id < rows[b].id
                   /\ DefaultPlanned(rows[a]) /\ DefaultPlanned(rows[b])
                   /\ rows[a].execution_plan_time < rows[b].execution_plan_time)
                  => a < b

\* Two rows of a queue created a clock reading apart, returned in that order.
C19_Witness ==
    /\ get_ret.ret[1] = "List"
    /\ get_ret.call[2] = _PENDING
    /\ Len(get_ret.ret[2]) = 2
    /\ get_ret.ret[2][1].id = 1 /\ get_ret.ret[2][2].id = 2
    /\ get_ret.ret[2][1].execution_plan_time = StartTime
    /\ get_ret.ret[2][2].execution_plan_time = StartTime + 1

\* C20 as claimed: a pending row has an empty execution_id, also after a failure
\* report returned it to pending.
C20_PendingHasNoExecutionId ==
    \A i \in DOMAIN tasks :
        tasks[i].status = _PENDING => tasks[i].execution_id = EmptyExecutionId

\* C21 as claimed: of the set_task_result calls that carry the execution_id of one
\* claim at most one writes the row; a write finds the row executing under the
\* execution_id of its call, so none changes a row claimed again or done or in
\* error since; and retried is at most the number of claims of the row.
C21_OneReportPerClaim ==
    /\ [][\A r \in DOMAIN reporter :
            (set_task_result_update(r) /\ reporter[r].task_id \in DOMAIN tasks)
            => /\ tasks[reporter[r].task_id].status = _EXECUTING
               /\ tasks[reporter[r].task_id].execution_id = reporter[r].execution_id
               /\ \A q \in DOMAIN reporter :
                     (/\ q # r
                      /\ reporter[q].task_id = reporter[r].task_id
                      /\ reporter[q].execution_id = reporter[r].execution_id)
                     => reporter[q].ret # <<"None">>]_vars
    /\ [](\A i \in DOMAIN tasks : tasks[i].retried <= Cardinality(ClaimsOf(i)))

\* C22 as claimed: the update of a claim changes only a row that is pending at
\* that moment, whatever reports and other claims are under way.
C22_ClaimOnlyFromPending ==
    [][\A d \in fetched' \ fetched : tasks[d.task.id].status = _PENDING]_vars

\* C23 as claimed: an accepted failure report adds exactly 1 to retried and sets
\* error if retried after the increment is >= max_retry, pending otherwise.
C23_ErrorAfterIncrement ==
    [][\A r \in DOMAIN reporter :
          (/\ set_task_result_update(r)
           /\ ~reporter[r].success
           /\ reporter[r].task_id \in DOMAIN tasks)
          => LET old == tasks[reporter[r].task_id]
                 new == tasks'[reporter[r].task_id]
             IN  /\ new.retried = old.retried + 1
                 /\ new.status = IF new.retried >= old.max_retry THEN _ERROR ELSE _PENDING]_vars

\* C23, as amended: an accepted failure report adds exactly 1 to retried and sets
\* error if retried before the increment is >= max_retry, pending otherwise.
C23_ErrorBeforeIncrement ==
    [][\A r \in DOMAIN reporter :
          (/\ set_task_result_update(r)
           /\ ~reporter[r].success
           /\ reporter[r].task_id \in DOMAIN tasks)
          => LET old == tasks[reporter[r].task_id]
                 new == tasks'[reporter[r].task_id]
             IN  /\ new.retried = old.retried + 1
                 /\ new.status = IF old.retried >= old.max_retry THEN _ERROR ELSE _PENDING]_vars

\* The first failure of a row with max_retry = 1: retried = 1 = max_retry, and the
\* row is pending.
C23_Witness ==
    \E i \in DOMAIN tasks :
        /\ tasks[i].max_retry = 1 /\ tasks[i].retried = 1
        /\ tasks[i].status = _PENDING /\ tasks[i].version = 1

\* The rows of the default queue that are pending and planned for now or earlier.
DueOnDefaultQueue ==
    {i \in OnDefaultQueue : tasks[i].status = _PENDING /\ tasks[i].execution_plan_time <= now}

\* C24: with one claimant, the row fetch_task reads for the queue is pending, of
\* that queue, planned no later than now, and no such row is planned earlier; the
\* task the call returns is that row, unchanged since it was read.
C24_FetchReturnsEarliest ==
    [][\A f \in DOMAIN fetcher :
          /\ (fetch_task(f, "") /\ fetcher'[f].pc = "update")
             => LET i == fetcher'[f].task[1].id
                IN  /\ i \in DueOnDefaultQueue
                    /\ \A j \in DueOnDefaultQueue :
                          tasks[i].execution_plan_time <= tasks[j].execution_plan_time
          /\ \A d \in fetched' \ fetched :
                d.by = f => /\ d.task.id = fetcher[f].task[1].id
                            /\ d.task.id \in DueOnDefaultQueue
                            /\ d.task.queue = _DEFAULT_QUEUE
                            /\ \A j \in DueOnDefaultQueue :
                                  tasks[d.task.id].execution_plan_time
                                     <= tasks[j].execution_plan_time]_vars

\* The first call returned the second row created, planned before the first,
\* which was due as well and stayed pending.
C24_Witness ==
    /\ OnDefaultQueue = {1, 2}
    /\ tasks[2].execution_plan_time < tasks[1].execution_plan_time
    /\ tasks[1].execution_plan_time < now
    /\ fetcher[1].pc = "returned" /\ fetcher[1].ret[1] = "Dict" /\ fetcher[1].ret[2].id = 2
    /\ tasks[1].status = _PENDING
    /\ fetcher[2].pc = "idle"

\* C25 as claimed: a fetch_task call made when the only row due on the queue is
\* planned for exactly the current time selects that row and goes on to claim it.
C25_DueNowIsClaimed ==
    [][\A f \in DOMAIN fetcher, i \in DOMAIN tasks :
          (/\ fetch_task(f, "")
           /\ DueOnDefaultQueue = {i}
           /\ tasks[i].execution_plan_time = now)
          => (/\ fetcher'[f].pc = "update"
              /\ fetcher'[f].task[1].id = i)]_vars

\* C26: a claim attempt that does not succeed leaves every row as it was: the
\* select of a pass, whether it finds a row or not, an update that matches no row,
\* and the death of the caller between the select and the update.
C26_FailedClaimChangesNothing ==
    [][\A f \in DOMAIN fetcher :
          (\/ fetch_task(f, "")
           \/ fetch_task_retry(f)
           \/ fetch_task_crash(f)
           \/ (do_fetch_update(f) /\ fetched' = fetched))
          => tasks' = tasks]_vars

\* A caller died holding a row it had read, which is pending still under the
\* version read, while another caller lost its update and sleeps.
C26_Witness ==
    /\ \E f \in DOMAIN fetcher :
          /\ fetcher[f].pc = "crashed" /\ fetcher[f].task # None
          /\ tasks[fetcher[f].task[1].id].status = _PENDING
          /\ tasks[fetcher[f].task[1].id].version = fetcher[f].task[1].version
    /\ \E g \in DOMAIN fetcher : fetcher[g].pc = "sleep"

\* A fetch_task call between its first select and its return.
InCall(f) == fetcher[f].pc \in {"update", "sleep"}

\* C27: a fetch_task call makes at most Attempts passes (n counts the passes
\* lost), each one select and at most one update; the next statement of a call
\* under way can always run, whatever the rows and the other callers are; and
\* every call under way returns, unless its caller dies first.
C27_FetchTerminates ==
    /\ [](\A f \in DOMAIN fetcher : fetcher[f].n < Attempts)
    /\ [](\A f \in DOMAIN fetcher :
             InCall(f) => ENABLED (fetch_task_retry(f) \/ do_fetch_update(f)))
    /\ \A f \in RaceCallers :
          InCall(f) ~> (fetcher[f].pc \in {"returned", "crashed"})

\* Caller 1 is on its last pass, having lost the two before, and the row it has
\* read is claimed by another caller already: its update will lose as well.
C27_Witness ==
    /\ fetcher[1].pc = "update"
    /\ fetcher[1].n = Attempts - 1
    /\ tasks[fetcher[1].task[1].id].status = _EXECUTING
    /\ tasks[fetcher[1].task[1].id].version # fetcher[1].task[1].version

\* C28: the update of an accepted report changes, in the row reported on, the
\* status, and the task_result (success) or retried by one (failure), and nothing
\* else in that row or in any other; so a row set pending again is selected by
\* the next fetch_task on its queue when no other row is a candidate with a plan
\* time as early, and that call claims it.
C28_ReportTouchesOnlyItsFields ==
    /\ [][\A r \in DOMAIN reporter :
            (set_task_result_update(r) /\ reporter[r].task_id \in DOMAIN tasks)
            => LET old == tasks[reporter[r].task_id]
                   new == tasks'[reporter[r].task_id]
               IN  /\ DOMAIN tasks' = DOMAIN tasks
                   /\ \A j \in DOMAIN tasks : j # reporter[r].task_id => tasks'[j] = tasks[j]
                   /\ new = [old EXCEPT
                               !.status = new.status,
                               !.task_result = IF reporter[r].success
                                               THEN reporter[r].task_result ELSE @,
                               !.retried = IF reporter[r].success THEN @ ELSE @ + 1]
                   /\ new.status # _EXECUTING]_vars
    /\ [][\A f \in DOMAIN fetcher, i \in DOMAIN tasks :
            (/\ fetch_task(f, tasks[i].queue)
             /\ tasks[i].status = _PENDING
             /\ tasks[i].retried > 0
             /\ \A j \in DOMAIN tasks \ {i} :
                   IsCandidate(j, tasks[i].queue, now)
                   => tasks[j].execution_plan_time > tasks[i].execution_plan_time)
            => (fetcher'[f].pc = "update" /\ fetcher'[f].task[1].id = i)]_vars
    /\ [][\A f \in DOMAIN fetcher :
            (do_fetch_update(f) /\ tasks[fetcher[f].task[1].id].retried > 0)
            => \E d \in fetched' \ fetched :
                  /\ d.by = f
                  /\ d.task.id = fetcher[f].task[1].id
                  /\ tasks'[d.task.id].status = _EXECUTING]_vars

\* A row claimed, reported failed, pending again with the fields of the claim
\* other than status and retried, and then claimed a second time.
C28_Witness ==
    \E i \in DOMAIN tasks, r \in DOMAIN reporter :
        /\ tasks[i].status = _EXECUTING
        /\ tasks[i].retried = 1 /\ tasks[i].max_retry = 1
        /\ tasks[i].version = 2
        /\ tasks[i].execution_plan_time = StartTime - 1
        /\ Cardinality(ClaimsOf(i)) = 2
        /\ reporter[r].pc = "returned" /\ reporter[r].ret = <<"None">>
        /\ reporter[r].task_id = i
        /\ \E d \in ClaimsOf(i) :
              d.task.version = 1 /\ d.task.execution_id = reporter[r].execution_id

\* C29: the Dict of a successful claim is of the row read, its version is the
\* version read plus one and is the row's version once the update is done, and
\* its execution_id is the row's, whatever the other callers did in between.
C29_DictMatchesRow ==
    [][\A d \in fetched' \ fetched :
          LET read == fetcher[d.by].task[1]
          IN  /\ d.task.id = read.id
              /\ d.task.version = read.version + 1
              /\ tasks'[d.task.id].version = d.task.version
              /\ tasks'[d.task.id].execution_id = d.task.execution_id
              /\ fetcher'[d.by].ret = <<"Dict", d.task>>]_vars

\* Two callers claimed the same row one after the other; the second holds the
\* Dict of version 2, which is the row's version and execution_id.
C29_Witness ==
    \E d \in fetched, e \in fetched :
        /\ e.task.id = d.task.id /\ e.by # d.by
        /\ e.task.version = 1 /\ d.task.version = 2
        /\ fetcher[d.by].ret = <<"Dict", d.task>>
        /\ tasks[d.task.id].version = 2
        /\ tasks[d.task.id].execution_id = d.task.execution_id
        /\ tasks[d.task.id].execution_id # e.task.execution_id

\* C30: once the outermost scope has exited, or a statement made outside any
\* scope has returned, the thread has no database connection open.
C30_NoConnectionOutsideScopes ==
    scopes = << >> => connection # "open"

\* The transaction scopes open on the thread.
OpenTransactions == {k \in 1..Len(scopes) : scopes[k].kind = "transaction"}

\* C31: _db_ctx.transactions is the number of transaction scopes open on the
\* thread: never negative, 0 when no scope is open, and 0 again once the
\* outermost scope has exited, also when its commit() or rollback() raised.
C31_DepthCountsOpenScopes ==
    /\ db_ctx.transactions = Cardinality(OpenTransactions)
    /\ db_ctx.transactions >= 0
    /\ scopes = << >> => db_ctx.transactions = 0
    /\ outer.exited => db_ctx.transactions = 0

\* An outermost transaction scope, with one nested in it that exited before, has
\* exited with its commit() raising, and no scope is open.
C31_Witness ==
    /\ scopes = << >>
    /\ outer.exited
    /\ outer.calls = <<"commit">>
    /\ outer.raised = Some("CommitError")
    /\ outer.inner # {}
    /\ db_ctx.transactions = 0

\* C32: an executing row has an execution_id and a version of 1 or more; a row
\* of version 0 is pending, never retried, and has no execution_id.
C32_VersionZeroIsUntouched ==
    \A i \in DOMAIN tasks :
        /\ tasks[i].status = _EXECUTING
              => (tasks[i].execution_id # EmptyExecutionId /\ tasks[i].version >= 1)
        /\ tasks[i].version = 0
              => /\ tasks[i].status = _PENDING
                 /\ tasks[i].retried = 0
                 /\ tasks[i].execution_id = EmptyExecutionId

\* A row claimed for the second time, after a failure report, beside a row that
\* nobody claimed.
C32_Witness ==
    \E i \in DOMAIN tasks, j \in DOMAIN tasks :
        /\ tasks[i].status = _EXECUTING
        /\ tasks[i].version = 2 /\ tasks[i].retried = 1
        /\ tasks[i].execution_id # EmptyExecutionId
        /\ tasks[j].version = 0 /\ tasks[j].status = _PENDING

\* C33: a set_task_result call that has ended either returned or raised
\* TaskError, the call for an id that has no row included.
C33_MissingRowIsTaskError ==
    \A r \in DOMAIN reporter :
        reporter[r].pc = "returned" => reporter[r].ret[1] \in {"None", "TaskError"}

\* C34: a write made at depth 0 is committed by that statement, alone; a write
\* made inside a transaction scope stays uncommitted, and what is written inside
\* a transaction is committed only by the exit of the outermost scope; so at
\* depth 0 nothing is ever left uncommitted between two statements.  The two
\* statements of set_task_result are made at depth 0 (task.py:231, 244) and those
\* of _do_fetch_task in two scopes entered one after the other (task.py:201, 211):
\* in either, the read is a step ended before the write begins.
C34_AutoCommitAtDepthZero ==
    /\ [][\A k \in 1..MaxWrites :
            (_update(k) /\ db_ctx.transactions = 0)
            => (user' = user \cup {k} /\ pending' = {})]_vars
    /\ [][\A k \in 1..MaxWrites :
            (_update(k) /\ db_ctx.transactions > 0)
            => (user' = user /\ k \in pending')]_vars
    /\ [][(user' # user /\ db_ctx.transactions > 0)
            => (/\ db_ctx'.transactions = 0
                /\ scopes' = SubSeq(scopes, 1, Len(scopes) - 1)
                /\ user' = user \cup pending)]_vars
    /\ [](db_ctx.transactions = 0 => pending = {})

\* Row 1 is committed and was not written in the transaction now open, two scopes
\* deep, in which row 2 is written and not committed.
C34_Witness ==
    /\ db_ctx.transactions = 2
    /\ ~outer.exited
    /\ user = {1} /\ 1 \notin outer.wrote
    /\ pending = {2} /\ 2 \in outer.wrote

====
